---- MODULE Spec2Model ----
(***************************************************************************)
(* StudyMateAI: the chunker of utils.py and the chunk store / retriever of *)
(* studymateai_rag_pipeline.py.                                            *)
(*                                                                         *)
(* Text.  A text is a sequence of items: 0 is a stretch of whitespace, and *)
(* n > 0 is one sentence of n words.  str.strip() removes the leading and  *)
(* trailing whitespace items, nltk's sent_tokenize returns the sentences   *)
(* without the whitespace between them, len(s.split()) is the number of    *)
(* words of s, and " ".join(l) puts one whitespace item between the        *)
(* elements of l.                                                          *)
(***************************************************************************)
EXTENDS Integers, Sequences, FiniteSets, TLC

\* ---------------------------------------------------------------- bounds
MaxItems == 4
MaxWords == 3
MaxChunkSize == 3
MaxOverlap == 3
MaxDocs == 2
MaxContext == 2
MaxWait == 62
MaxFiles == 2
MaxRuns == 2
MaxSubs == 2

\* ------------------------------------------------------ program constants
MAX_CONTEXT_CHUNKS == 3
N_RESULTS == 3
PREVIEW_LEN == 200
TIMEOUT == 60
CHUNK_SIZE == 500
CHUNK_OVERLAP == 50
PIPELINE_CHUNK_WORDS == 500
PIPELINE_KEEP_SENTENCES == 50
MAX_FILENAME == 255

VARIABLES
    pc,          \* position of the chunker's caller: "ready" | "done"
    text,        \* chunk_text's argument text
    chunk_size,  \* chunk_text's argument chunk_size
    overlap,     \* chunk_text's argument overlap
    tokenizer,   \* "ok" | "raises" | "unavailable" (sent_tokenize is None)
    ret,         \* what the call gave back (NoRet before the call)
    store,       \* the Chroma collection "studymate": its entries, oldest first
    spc,         \* store_chunks: "idle" | "storing" (inside its loop)
    pending,     \* store_chunks: how many docs its loop has not taken yet
    last,        \* the last step of store_chunks or call of retrieve_chunks
    before,      \* the entries when the store_chunks call (or the restart) that
                 \* last tells of began; forgotten when another call follows it
    fresh,       \* the ids of the docs that store_chunks call has taken
    ppc,         \* format_assignment_prompt's caller: "ready" | "done"
    title,       \* format_assignment_prompt's argument title
    description, \* its argument description: a string or None
    context_chunks,  \* its argument context_chunks: a list of strings or None
    prompt,      \* the string it returned, as the sequence of its pieces
    cpc,  \* the caller of the model: "idle" | "waiting" | "returned" | "raised"
    fn,  \* the function that was called
    proc,  \* the ollama process: "none" | "running" | "hung" | "exited" | "killed"
    waited,  \* the seconds the caller has waited for the process
    cres,  \* what the call returned or raised
    pout,  \* what the process left when it exited: return code, stdout valid UTF-8
    apc,  \* solve_assignment's caller: "idle" | "solved"
    assignment,  \* the assignment dict of the last call
    sres,  \* what the last call returned or raised
    seen, \* the outcomes the caller has been handed so far
    lpc,  \* the corpus load: "ready" | "done"
    loader,  \* the loader that is run
    files,  \* the files under the data directory, in os.walk order
    loaded, \* what the loader returned, or that it raised
    npc,  \* safe_filename's caller: "ready" | "done"
    filename,  \* safe_filename's argument
    safe, \* the name it returned
    bpc,  \* submit_assignment: the request it is about to make, "returned" or "raised"
    sargs,  \* its arguments course_id, assignment_id, filepath
    subs,  \* the ids of the student's submissions Classroom lists
    effects, \* the uploads, attachments and turn-ins done so far
    dpc,  \* download_file's caller: "ready" | "done"
    world,  \* what the file system, Drive and the network do during the call
    dres  \* what the call did: the methods tried, the file or the placeholder written

chunkVars == <<pc, text, chunk_size, overlap, tokenizer, ret>>
storeVars == <<store, spc, pending, last, before, fresh>>
promptVars == <<ppc, title, description, context_chunks, prompt>>
callVars == <<cpc, fn, proc, waited, cres, pout>>
solveVars == <<apc, assignment, sres, seen>>
loadVars == <<lpc, loader, files, loaded>>
nameVars == <<npc, filename, safe>>
submitVars == <<bpc, sargs, subs, effects>>
downloadVars == <<dpc, world, dres>>
vars == <<pc, text, chunk_size, overlap, tokenizer, ret, store, spc, pending, last,
          before, fresh, ppc, title, description, context_chunks, prompt,
          cpc, fn, proc, waited, cres, pout,
          apc, assignment, sres, seen,
          lpc, loader, files, loaded,
          npc, filename, safe,
          bpc, sargs, subs, effects,
          dpc, world, dres>>

\* ------------------------------------------------------------- strings
Items == 0..MaxWords

Texts == UNION {[1..n -> Items] : n \in 0..MaxItems}

RECURSIVE LStrip(_)
LStrip(s) ==
    IF s = <<>> THEN <<>>
    ELSE IF Head(s) = 0 THEN LStrip(Tail(s)) ELSE s

RECURSIVE RStrip(_)
RStrip(s) ==
    IF s = <<>> THEN <<>>
    ELSE IF s[Len(s)] = 0 THEN RStrip(SubSeq(s, 1, Len(s) - 1)) ELSE s

\* the test "if not text" without the strip
StripNone(s) == s

\* str.strip()
Strip(s) == RStrip(LStrip(s))

RECURSIVE SumSeq(_)
SumSeq(s) == IF s = <<>> THEN 0 ELSE Head(s) + SumSeq(Tail(s))

\* len(s.split()): the number of words of a string
WordCount(s) == SumSeq(s)

IsSentence(x) == x > 0

\* nltk.tokenize.sent_tokenize on a text: its sentences, in order
sent_tokenize(t) == SelectSeq(t, IsSentence)

RECURSIVE Join(_)
\* " ".join(l) for a list l of sentences
Join(l) ==
    IF l = <<>> THEN <<>>
    ELSE IF Len(l) = 1 THEN <<l[1]>>
    ELSE <<l[1], 0>> \o Join(Tail(l))

\* ------------------------------------------------------------ chunk_text
(* A chunk under construction is the list of the positions (in the         *)
(* tokenizer's output) of its sentences; seed counts how many of them, at  *)
(* its front, were carried over from the chunk closed before it.           *)

RECURSIVE OverlapWalkNoBound(_, _, _, _, _, _)
\* the fixed-count variant: the last sentence is carried whatever its size
OverlapWalkNoBound(sentences, current_chunk, k, overlap_sentences, overlap_tokens, ov) ==
    IF k = 0 \/ Len(overlap_sentences) >= 1
    THEN [sents |-> overlap_sentences, tokens |-> overlap_tokens]
    ELSE OverlapWalkNoBound(sentences, current_chunk, k - 1,
                            <<current_chunk[k]>> \o overlap_sentences,
                            overlap_tokens + WordCount(<<sentences[current_chunk[k]]>>), ov)

\* the variant that carries nothing over
OverlapWalkNone(sentences, current_chunk, k, overlap_sentences, overlap_tokens, ov) ==
    [sents |-> <<>>, tokens |-> 0]

RECURSIVE OverlapWalk(_, _, _, _, _, _)
\* for sent in reversed(current_chunk): ... (the walk is at position k)
OverlapWalk(sentences, current_chunk, k, overlap_sentences, overlap_tokens, ov) ==
    IF k = 0
    THEN [sents |-> overlap_sentences, tokens |-> overlap_tokens]
    ELSE LET sent_tokens == WordCount(<<sentences[current_chunk[k]]>>)
         IN IF overlap_tokens + sent_tokens <= ov
            THEN OverlapWalk(sentences, current_chunk, k - 1,
                             <<current_chunk[k]>> \o overlap_sentences,
                             overlap_tokens + sent_tokens, ov)
            ELSE [sents |-> overlap_sentences, tokens |-> overlap_tokens]

\* the end of the loop without "if current_chunk: chunks.append(...)"
FinalChunkDropped(chunks, current_chunk, seed) == chunks

\* "Add final chunk if it exists"
FinalChunk(chunks, current_chunk, seed) ==
    IF current_chunk # <<>>
    THEN Append(chunks, [sents |-> current_chunk, seed |-> seed])
    ELSE chunks

RECURSIVE ChunkLoopNoGuard(_, _, _, _, _, _, _, _)
\* the loop without "and current_chunk" in its test
ChunkLoopNoGuard(sentences, i, chunks, current_chunk, current_tokens, seed, size, ov) ==
    IF i > Len(sentences)
    THEN FinalChunk(chunks, current_chunk, seed)
    ELSE LET sentence_tokens == WordCount(<<sentences[i]>>)
         IN IF current_tokens + sentence_tokens > size
            THEN LET o == OverlapWalk(sentences, current_chunk, Len(current_chunk),
                                      <<>>, 0, ov)
                 IN ChunkLoopNoGuard(sentences, i + 1,
                                     Append(chunks, [sents |-> current_chunk, seed |-> seed]),
                                     Append(o.sents, i), o.tokens + sentence_tokens,
                                     Len(o.sents), size, ov)
            ELSE ChunkLoopNoGuard(sentences, i + 1, chunks,
                                  Append(current_chunk, i), current_tokens + sentence_tokens,
                                  seed, size, ov)

RECURSIVE ChunkLoop(_, _, _, _, _, _, _, _)
\* the loop "for sentence in sentences", about to take sentence i
ChunkLoop(sentences, i, chunks, current_chunk, current_tokens, seed, size, ov) ==
    IF i > Len(sentences)
    THEN FinalChunk(chunks, current_chunk, seed)
    ELSE LET sentence_tokens == WordCount(<<sentences[i]>>)
         IN IF current_tokens + sentence_tokens > size /\ current_chunk # <<>>
            THEN LET o == OverlapWalk(sentences, current_chunk, Len(current_chunk),
                                      <<>>, 0, ov)
                 IN ChunkLoop(sentences, i + 1,
                              Append(chunks, [sents |-> current_chunk, seed |-> seed]),
                              Append(o.sents, i), o.tokens + sentence_tokens,
                              Len(o.sents), size, ov)
            ELSE ChunkLoop(sentences, i + 1, chunks,
                           Append(current_chunk, i), current_tokens + sentence_tokens,
                           seed, size, ov)

\* the string of a chunk: " ".join(current_chunk)
ChunkString(sentences, c) == Join([k \in 1..Len(c.sents) |-> sentences[c.sents[k]]])

\* a fallback that returns the stripped text
FallbackStripped(t) == <<Strip(t)>>

\* "return [text]  # Return original text as fallback"
Fallback(t) == <<t>>

NoRet == [raised |-> FALSE, called |-> FALSE, tok_raised |-> FALSE,
          sentences |-> <<>>, parts |-> <<>>, chunks |-> <<>>]

\* utils.chunk_text(text, chunk_size, overlap) with the tokenizer in state tok
chunk_text(t, size, ov, tok) ==
    IF Strip(t) = <<>>
    THEN [NoRet EXCEPT !.called = TRUE]
    ELSE IF tok # "ok"
         THEN [NoRet EXCEPT !.called = TRUE, !.tok_raised = TRUE, !.chunks = Fallback(t)]
         ELSE LET sentences == sent_tokenize(t)
                  parts == ChunkLoop(sentences, 1, <<>>, <<>>, 0, 0, size, ov)
              IN [NoRet EXCEPT !.called = TRUE, !.sentences = sentences, !.parts = parts,
                               !.chunks = [k \in 1..Len(parts) |->
                                              ChunkString(sentences, parts[k])]]


\* ------------------------------------------------------------- embedder
(* What the process "ollama run bge-m3" did, as embed_text sees it.        *)
FailKinds == {"cannot_start",   \* subprocess.run raises: no such program
              "exit_error",     \* non-zero exit code, nothing on stdout
              "no_output",      \* exit code 0, nothing on stdout
              "unparsable",     \* the last line makes eval raise
              "falsy",          \* the last line evaluates to 0, [] or None
              "non_vector"}     \* the last line evaluates to a string or a dict

\* the vectors a model prints: two of dimension 1, one of dimension 2
Vecs == {<<0>>, <<1>>, <<1, 1>>}

Outcomes == {[kind |-> k, v |-> <<>>] : k \in FailKinds}
            \cup {[kind |-> "vector", v |-> v] : v \in Vecs}

None == [kind |-> "None", v |-> <<>>]

\* studymateai_rag_pipeline.embed_text: subprocess.run is outside the try,
\* eval of the last line of stdout is inside it
embed_text(out) ==
    IF out.kind = "cannot_start"
    THEN [raised |-> TRUE, val |-> None]
    ELSE IF out.kind \in {"exit_error", "no_output", "unparsable"}
         THEN [raised |-> FALSE, val |-> None]
         ELSE [raised |-> FALSE, val |-> out]

\* Python's truth value of what embed_text returned
Truthy(val) == val.kind \in {"non_vector", "vector"}

\* ---------------------------------------------------------------- Chroma
Ids == {"a_0", "a_1", "b_0"}

\* the file of a chunk id f"{file}_{i}"
FileOf(id) == IF id = "b_0" THEN "b" ELSE "a"

DocTexts == {"t1", "t2"}

\* the dicts load_and_chunk_files builds
Docs == {[id |-> i, text |-> t, source_file |-> FileOf(i)] : i \in Ids, t \in DocTexts}

HasId(st, id) == \E k \in 1..Len(st) : st[k].id = id

\* the dimension the collection was given by its first entry
DimOk(st, v) == st = <<>> \/ Len(st[1].embedding) = Len(v)

\* collection.add(documents=[..], metadatas=[..], ids=[..], embeddings=[..]):
\* an embedding that is no vector or has another dimension raises; an id the
\* collection already holds is not added again and its entry stays as it is
collection_add(st, e) ==
    IF e.embedding.kind # "vector" \/ ~DimOk(st, e.embedding.v)
    THEN [raised |-> TRUE, store |-> st]
    ELSE IF HasId(st, e.id)
         THEN [raised |-> FALSE, store |-> st]
         ELSE [raised |-> FALSE,
               store |-> Append(st, [id |-> e.id, document |-> e.document,
                                     file |-> e.file, embedding |-> e.embedding.v])]

\* squared L2 distance, the collection's default metric
RECURSIVE Dist(_, _)
Dist(a, b) ==
    IF a = <<>> THEN 0
    ELSE (Head(a) - Head(b)) * (Head(a) - Head(b)) + Dist(Tail(a), Tail(b))

\* the position of the entry of st nearest to q among the positions ks
NearestOf(st, q, ks) ==
    CHOOSE k \in ks : \A j \in ks :
        \/ Dist(st[k].embedding, q) < Dist(st[j].embedding, q)
        \/ Dist(st[k].embedding, q) = Dist(st[j].embedding, q) /\ k <= j

RECURSIVE Ranked(_, _, _, _)
\* the documents of the n entries of st nearest to q, nearest first
Ranked(st, q, ks, n) ==
    IF n = 0 \/ ks = {} THEN <<>>
    ELSE LET k == NearestOf(st, q, ks)
         IN <<st[k].document>> \o Ranked(st, q, ks \ {k}, n - 1)

\* collection.query(query_embeddings=[emb], n_results=n): one list of
\* documents per query embedding; fewer than n entries give them all
collection_query(st, emb, n) ==
    IF emb.kind # "vector" \/ ~DimOk(st, emb.v)
    THEN [raised |-> TRUE, documents |-> <<>>]
    ELSE [raised |-> FALSE, documents |-> <<Ranked(st, emb.v, 1..Len(st), n)>>]

\* ------------------------------------------------------- retrieve_chunks
NoLast == [op |-> "none", out |-> "none", id |-> "none", text |-> "none",
           emb |-> None, existed |-> FALSE, count |-> 0, reached |-> FALSE,
           n_results |-> 0, raised |-> FALSE, result |-> <<>>]

\* the return statement without the [0]
ReturnedBatch(documents) == documents

\* 'return result["documents"][0] if result["documents"] else []'
Returned(documents) == IF documents # <<>> THEN documents[1] ELSE <<>>

\* retrieve_chunks(query), the embedder's process doing out
retrieve_chunks(st, out) ==
    LET e == embed_text(out)
        base == [NoLast EXCEPT !.op = "retrieve", !.out = out.kind, !.count = Len(st)]
    IN IF e.raised
       THEN [base EXCEPT !.raised = TRUE]
       ELSE IF ~Truthy(e.val)
            THEN base
            ELSE LET r == collection_query(st, e.val, N_RESULTS)
                     q == [base EXCEPT !.emb = e.val, !.reached = TRUE,
                                       !.n_results = N_RESULTS]
                 IN IF r.raised
                    THEN [q EXCEPT !.raised = TRUE]
                    ELSE [q EXCEPT !.result = Returned(r.documents)]

\* ---------------------------------------------------------- store_chunks
\* one turn of "for doc in docs": embed the text, add it if there is an
\* embedding
store_step(st, doc, out) ==
    LET e == embed_text(out)
        base == [NoLast EXCEPT !.op = "store", !.out = out.kind, !.id = doc.id,
                               !.text = doc.text, !.count = Len(st),
                               !.existed = HasId(st, doc.id)]
    IN IF e.raised
       THEN [store |-> st, last |-> [base EXCEPT !.raised = TRUE]]
       ELSE IF ~Truthy(e.val)
            THEN [store |-> st, last |-> base]
            ELSE LET a == collection_add(st, [id |-> doc.id, document |-> doc.text,
                                              file |-> doc.source_file,
                                              embedding |-> e.val])
                 IN [store |-> a.store,
                     last |-> [base EXCEPT !.emb = e.val, !.reached = TRUE,
                                           !.raised = a.raised]]


\* ----------------------------------------------- format_assignment_prompt
(* A string is a record: its name s and its length n in characters; the    *)
(* slice x[:k] of a string is the string of its first k characters.  The   *)
(* prompt is the sequence of the pieces the f-string puts together.        *)
Str(name, len) == [s |-> name, n |-> len]

PERSONA == Str("You are StudyMateAI, an expert academic assistant. ...", 145)
TITLE_LABEL == Str("Assignment Title: ", 18)
DESC_LABEL == Str("Assignment Description: ", 24)
PLACEHOLDER == Str("No specific description provided.", 33)
HEADING == Str("Relevant course materials:", 26)
INSTRUCTIONS == Str("Instructions: 1. ... 6. ... Do not ask for clarification or additional information.", 574)
CUE == Str("Answer:", 7)
NL == Str("\n", 1)
DASH == Str("- ", 2)
DOTS == Str("...", 3)

Titles == {Str("", 0), Str("Essay on X", 10)}

Descriptions == {None, Str("", 0), Str("Test description", 16)}

ChunkLens == {0, 1, PREVIEW_LEN, PREVIEW_LEN + 1, 500}

ContextTexts == {Str(c, n) : c \in {"c1", "c2"}, n \in ChunkLens}

\* a Python list
List(xs) == [kind |-> "list", v |-> xs]

ContextLists ==
    {None} \cup {List(xs) : xs \in UNION {[1..n -> ContextTexts] : n \in 0..MaxContext}}

\* chunk[:k]
Slice(c, k) == Str(c.s, IF c.n <= k THEN c.n ELSE k)

\* the chunk put into the prompt whole
PreviewWhole(c) == c

\* chunk[:200]
Preview(c) == Slice(c, PREVIEW_LEN)

\* f"- {chunk[:200]}..."
ContextLine(c) == <<DASH, Preview(c), DOTS>>

RECURSIVE JoinLines(_)
\* chr(10).join(f"- {chunk[:200]}..." for chunk in context_chunks)
JoinLines(cs) ==
    IF cs = <<>> THEN <<>>
    ELSE IF Len(cs) = 1 THEN ContextLine(cs[1])
    ELSE ContextLine(cs[1]) \o <<NL>> \o JoinLines(Tail(cs))

\* the test "if context_chunks is not None"
HasContextNotNone(cs) == cs # None

\* "if context_chunks:"
HasContext(cs) == cs # None /\ cs.v # <<>>

\* context_section
ContextSection(cs) ==
    IF HasContext(cs)
    THEN <<NL, HEADING, NL>> \o JoinLines(cs.v) \o <<NL, NL>>
    ELSE <<>>

\* the description put into the prompt as it is
DescriptionRaw(d) == IF d = None THEN Str("None", 4) ELSE d

\* {description or 'No specific description provided.'}
DescriptionOr(d) ==
    IF d = None THEN PLACEHOLDER
    ELSE IF d.n = 0 THEN PLACEHOLDER ELSE d

\* utils.format_assignment_prompt(title, description, context_chunks)
format_assignment_prompt(t, d, cs) ==
    <<PERSONA, NL, NL, TITLE_LABEL, t, NL, NL, DESC_LABEL, DescriptionOr(d), NL, NL>>
    \o ContextSection(cs)
    \o <<INSTRUCTIONS, NL, NL, CUE>>

PromptIdle ==
    /\ ppc = "done"
    /\ title = Str("", 0)
    /\ description = None
    /\ context_chunks = None
    /\ prompt = <<>>

\* ------------------------------------------------- calls of the model
(* The three functions that run "ollama run <model>" with subprocess.run   *)
(* and wait for the process.  waited counts the seconds the caller has     *)
(* waited; only call_ollama passes a timeout to subprocess.run.            *)
CallFns == {"call_ollama", "embed_text", "ask_studymate"}

\* the timeout the function passes to subprocess.run: 0 stands for none
TimeoutOf(f) == IF f = "call_ollama" THEN TIMEOUT ELSE 0

\* a function that lets the failure to start the process through
OnCannotStartUncaught(f) == [pc |-> "raised", res |-> "FileNotFoundError"]

\* the function's outcome when the process cannot be started
OnCannotStart(f) ==
    IF f = "call_ollama" THEN [pc |-> "raised", res |-> "APIError"]
    ELSE [pc |-> "raised", res |-> "FileNotFoundError"]

NoExit == [rc |-> 0, utf8 |-> TRUE]

\* the function's outcome when the process exits with return code rc, its
\* standard output being valid UTF-8 or not: bytes.decode raises
\* UnicodeDecodeError on bytes that are not
OnExit(f, rc, utf8) ==
    IF f = "call_ollama"
    THEN IF rc # 0 THEN [pc |-> "raised", res |-> "APIError"]
         ELSE IF ~utf8 THEN [pc |-> "raised", res |-> "APIError"]
         ELSE [pc |-> "returned", res |-> "stdout"]
    ELSE IF f = "embed_text" THEN [pc |-> "returned", res |-> "eval or None"]
    ELSE IF ~utf8 THEN [pc |-> "raised", res |-> "UnicodeDecodeError"]
    ELSE [pc |-> "returned", res |-> "stdout"]

CallIdle ==
    /\ cpc = "idle"
    /\ fn = "call_ollama"
    /\ proc = "none"
    /\ waited = 0
    /\ cres = "none"
    /\ pout = NoExit

\* ------------------------------------------------------- solve_assignment
\* the assignment dicts: with or without the key 'title'; the description
\* is a string or None
Assignments == {[has_title |-> h, description |-> d] : h \in BOOLEAN, d \in Descriptions}

\* what the chat model's process does in utils.call_ollama
OllamaOutcomes == {"ok", "exit_error", "timeout", "cannot_start", "bad_utf8"}

\* the stores solve_assignment may find: empty, one entry, two entries
Entry(i, t, v) == [id |-> i, document |-> t, file |-> FileOf(i), embedding |-> v]

SolveStores == {<<>>, <<Entry("a_0", "t1", <<0>>)>>,
                <<Entry("a_0", "t1", <<0>>), Entry("b_0", "t2", <<1>>)>>}

NoSolve == [kind |-> "none", value |-> "none", context |-> "n/a", written |-> FALSE]

\* what the caller gets when the try block raises: the handler's log line
\* reads title, which is unbound when assignment['title'] raised
Handler(title_bound) ==
    [NoSolve EXCEPT !.kind = "raised",
                    !.value = IF title_bound THEN "StudyMateAIError"
                              ELSE "UnboundLocalError"]

\* assignment_handler.solve_assignment(assignment), the embedder's process
\* doing out, the chat model's process doing oll, the write of the answer
\* file succeeding or not
solve_assignment(a, st, out, oll, write_ok) ==
    IF ~a.has_title THEN Handler(FALSE)
    ELSE LET r == retrieve_chunks(st, out)
         IN IF r.raised \/ oll # "ok" \/ ~write_ok THEN Handler(TRUE)
            ELSE [kind |-> "returned", value |-> "filepath",
                  context |-> IF r.result = <<>> THEN "none" ELSE "some",
                  written |-> TRUE]

SolveIdle ==
    /\ apc = "idle"
    /\ assignment = [has_title |-> TRUE, description |-> None]
    /\ sres = NoSolve
    /\ seen = {}

\* ------------------------------------------------------------ corpus load
(* The data directory is the list of its files in the order os.walk meets  *)
(* them.  A file has a directory, a name (its extension with it), is       *)
(* readable or not, and has a text.  The id f"{file}_{i}" is the pair of   *)
(* the file name and the index: the index is the digits after the last     *)
(* underscore, so the string determines both.                              *)
Dirs == {"data/pdfs", "data/materials"}

FileNames == {"a.pdf", "b.docx", "c.txt"}

\* file_path.suffix.lower() / file.lower().endswith(...)
ExtOf(name) == IF name = "a.pdf" THEN ".pdf" ELSE IF name = "b.docx" THEN ".docx" ELSE ".txt"

\* the texts of the files: blank, one sentence, two sentences that do not
\* fit one chunk, one sentence longer than a chunk
LoadTexts == {<<0>>, <<300>>, <<300, 300>>, <<501>>}

DataFiles ==
    {[dir |-> d, name |-> n, readable |-> TRUE, text |-> t] :
         d \in Dirs, n \in FileNames, t \in LoadTexts}
    \cup {[dir |-> d, name |-> n, readable |-> FALSE, text |-> <<>>] :
              d \in Dirs, n \in FileNames}

\* a directory tree: no two files with the same path
Arrangements ==
    {fs \in UNION {[1..n -> DataFiles] : n \in 0..MaxFiles} :
         \A i, j \in 1..Len(fs) :
             (fs[i].dir = fs[j].dir /\ fs[i].name = fs[j].name) => i = j}

\* f"{file}_{i}"
MakeId(file, i) == <<file, i>>

\* the dicts one file adds to documents: one per chunk, i from enumerate
DocsOf(f, chunks) ==
    [k \in 1..Len(chunks) |->
        [id |-> MakeId(f.name, k - 1), text |-> chunks[k], source_file |-> f.name,
         file_path |-> <<f.dir, f.name>>, chunk_index |-> k - 1]]

RECURSIVE load_documents_from(_, _, _)
\* utils.load_documents: the loop over the files, about to take file i
load_documents_from(fs, i, documents) ==
    IF i > Len(fs) THEN [raised |-> FALSE, docs |-> documents]
    ELSE LET f == fs[i]
         IN IF ~f.readable
            THEN load_documents_from(fs, i + 1, documents)
            ELSE IF Strip(f.text) = <<>>
                 THEN load_documents_from(fs, i + 1, documents)
                 ELSE load_documents_from(fs, i + 1,
                          documents \o DocsOf(f, chunk_text(f.text, CHUNK_SIZE,
                                                            CHUNK_OVERLAP, "ok").chunks))

\* utils.load_documents()
load_documents(fs) == load_documents_from(fs, 1, <<>>)

\* chunk[-n:]
LastN(l, n) == IF Len(l) <= n THEN l ELSE SubSeq(l, Len(l) - n + 1, Len(l))

RECURSIVE PipelineLoop(_, _, _, _, _)
\* load_and_chunk_files: "for sent in sents", about to take sentence i
PipelineLoop(sents, i, chunk, chunks, tokens) ==
    IF i > Len(sents)
    THEN IF chunk # <<>> THEN Append(chunks, Join(chunk)) ELSE chunks
    ELSE LET wc == WordCount(<<sents[i]>>)
         IN IF tokens + wc > PIPELINE_CHUNK_WORDS
            THEN LET kept == LastN(chunk, PIPELINE_KEEP_SENTENCES)
                 IN PipelineLoop(sents, i + 1, Append(kept, sents[i]),
                                 Append(chunks, Join(chunk)), WordCount(kept) + wc)
            ELSE PipelineLoop(sents, i + 1, Append(chunk, sents[i]), chunks, tokens + wc)

RECURSIVE PipelineCarried(_, _, _, _, _)
\* the same loop, collecting at each "chunk = chunk[-50:]" the word count of
\* the sentences it keeps for the next chunk
PipelineCarried(sents, i, chunk, tokens, carried) ==
    IF i > Len(sents) THEN carried
    ELSE LET wc == WordCount(<<sents[i]>>)
         IN IF tokens + wc > PIPELINE_CHUNK_WORDS
            THEN LET kept == LastN(chunk, PIPELINE_KEEP_SENTENCES)
                 IN PipelineCarried(sents, i + 1, Append(kept, sents[i]),
                                    WordCount(kept) + wc, Append(carried, WordCount(kept)))
            ELSE PipelineCarried(sents, i + 1, Append(chunk, sents[i]), tokens + wc, carried)

RECURSIVE load_and_chunk_files_from(_, _, _)
\* load_and_chunk_files: the loop over the files, about to take file i;
\* fitz.open and read_docx raise on a file they cannot read
load_and_chunk_files_from(fs, i, documents) ==
    IF i > Len(fs) THEN [raised |-> FALSE, docs |-> documents]
    ELSE LET f == fs[i]
         IN IF ExtOf(f.name) \notin {".pdf", ".docx"}
            THEN load_and_chunk_files_from(fs, i + 1, documents)
            ELSE IF ~f.readable
                 THEN [raised |-> TRUE, docs |-> <<>>]
                 ELSE load_and_chunk_files_from(fs, i + 1,
                          documents \o DocsOf(f, PipelineLoop(sent_tokenize(f.text), 1,
                                                              <<>>, <<>>, 0)))

\* studymateai_rag_pipeline.load_and_chunk_files()
load_and_chunk_files(fs) == load_and_chunk_files_from(fs, 1, <<>>)

Loaders == {"load_documents", "load_and_chunk_files"}

LoadIdle ==
    /\ lpc = "done"
    /\ loader = "load_documents"
    /\ files = <<>>
    /\ loaded = [raised |-> FALSE, docs |-> <<>>]

\* ---------------------------------------------------------- safe_filename
(* A file name is a sequence of runs: run [ch, n] is the character ch      *)
(* repeated n times, n > 0.                                                *)
\* invalid_chars = '<>:"/\\|?*'
InvalidChars == {"<", ">", ":", "\"", "/", "\\", "|", "?", "*"}

NameChars == InvalidChars \cup {"a", "_"}

RunLens == {1, MAX_FILENAME}

NameRuns == {[ch |-> c, n |-> k] : c \in NameChars, k \in RunLens}

FileNameInputs == UNION {[1..n -> NameRuns] : n \in 0..MaxRuns}

\* the replace loop leaving the character as it is
ReplaceNone(c) == c

\* for char in invalid_chars: filename = filename.replace(char, '_')
Replace(c) == IF c \in InvalidChars THEN "_" ELSE c

RECURSIVE TakeChars(_, _)
\* s[:k] on runs
TakeChars(rs, k) ==
    IF rs = <<>> \/ k <= 0 THEN <<>>
    ELSE IF Head(rs).n <= k
         THEN <<Head(rs)>> \o TakeChars(Tail(rs), k - Head(rs).n)
         ELSE <<[ch |-> Head(rs).ch, n |-> k]>>

\* the return statement without the slice
Untruncated(rs) == rs

\* filename[:255]
Truncated(rs) == TakeChars(rs, MAX_FILENAME)

\* utils.safe_filename(filename)
safe_filename(rs) ==
    Truncated([k \in 1..Len(rs) |-> [ch |-> Replace(rs[k].ch), n |-> rs[k].n]])

NameIdle ==
    /\ npc = "done"
    /\ filename = <<>>
    /\ safe = <<>>

\* ------------------------------------------------------ submit_assignment
(* The call is a sequence of requests to Classroom and Drive; a request    *)
(* that fails raises out of submit_assignment.  effects lists the changes  *)
(* the requests have made outside the program.                             *)
SubmissionIds == {"s1", "s2"}

\* subs.get('studentSubmissions'): the student's submissions, possibly none
SubmissionLists == UNION {[1..n -> SubmissionIds] : n \in 0..MaxSubs}

SubmitArgs == {[course_id |-> c, assignment_id |-> w, filepath |-> f] :
                   c \in {"c1", "c2"}, w \in {"w1", "w2"}, f \in {"f1.txt", "f2.txt"}}

\* a request whose failure is swallowed
ThenAlways(next, ok) == next

\* where the call is after a request: .execute() raises when it fails
Then(next, ok) == IF ok THEN next ELSE "raised"

SubmitIdle ==
    /\ bpc = "returned"
    /\ sargs = [course_id |-> "c1", assignment_id |-> "w1", filepath |-> "f1.txt"]
    /\ subs = <<>>
    /\ effects = <<>>

\* ---------------------------------------------------------- download_file
(* What the file system, Drive and the network do during one call: each    *)
(* field tells whether that step works.                                    *)
DownloadWorlds ==
    [mkdir_ok : BOOLEAN,      \* directory.mkdir(parents=True, exist_ok=True)
     exists : BOOLEAN,        \* file_path.exists()
     is_gdoc : BOOLEAN,       \* mime_type is a Google Docs document
     direct_ok : BOOLEAN,     \* method 1: request, raise_for_status, write
     meta_ok : BOOLEAN,       \* method 2: files().get(...).execute()
     has_wcl : BOOLEAN,       \* 'webContentLink' in file_metadata
     wcl_ok : BOOLEAN,        \* the download from webContentLink and its write
     has_export : BOOLEAN,    \* exportLinks has the docx export link
     export_ok : BOOLEAN,     \* the download from the export link and its write
     meta3_ok : BOOLEAN,      \* method 3: files().get(...).execute()
     ph_write_ok : BOOLEAN]   \* writing <name>_PLACEHOLDER.txt

NoDownload == [tried |-> <<>>, file |-> FALSE, placeholder |-> FALSE, raised |-> FALSE]

\* "Method 2": the alternative download after the direct one failed
Alternative(w) ==
    IF ~w.meta_ok THEN [tried |-> <<"metadata">>, ok |-> FALSE]
    ELSE IF w.has_wcl THEN [tried |-> <<"metadata", "webContentLink">>, ok |-> w.wcl_ok]
    ELSE IF w.has_export /\ w.is_gdoc
         THEN [tried |-> <<"metadata", "export">>, ok |-> w.export_ok]
         ELSE [tried |-> <<"metadata">>, ok |-> FALSE]

\* "Method 3": the placeholder file, written after its own metadata request
Placeholder(w) == w.meta3_ok /\ w.ph_write_ok

\* studymateai_rag_pipeline.download_file(service, file_id, file_name,
\* mime_type, token) in the world w
download_file(w) ==
    IF ~w.mkdir_ok THEN NoDownload
    ELSE IF w.exists THEN [NoDownload EXCEPT !.file = TRUE]
    ELSE IF w.direct_ok THEN [NoDownload EXCEPT !.tried = <<"direct">>, !.file = TRUE]
    ELSE LET a == Alternative(w)
         IN IF a.ok
            THEN [NoDownload EXCEPT !.tried = <<"direct">> \o a.tried, !.file = TRUE]
            ELSE [NoDownload EXCEPT !.tried = <<"direct">> \o a.tried \o <<"placeholder">>,
                                    !.placeholder = Placeholder(w)]

DownloadIdle ==
    /\ dpc = "done"
    /\ world = [f \in {"mkdir_ok", "exists", "is_gdoc", "direct_ok", "meta_ok", "has_wcl",
                       "wcl_ok", "has_export", "export_ok", "meta3_ok", "ph_write_ok"}
                |-> TRUE]
    /\ dres = NoDownload

\* ------------------------------------------------------------ idle parts
ChunkIdle ==
    /\ pc = "done"
    /\ text = <<>>
    /\ chunk_size = 0
    /\ overlap = 0
    /\ tokenizer = "ok"
    /\ ret = NoRet

StoreIdle ==
    /\ store = <<>>
    /\ spc = "idle"
    /\ pending = 0
    /\ last = NoLast
    /\ before = <<>>
    /\ fresh = {}

\* ------------------------------------------------------ store / retriever
InitStore ==
    /\ pc = "done"
    /\ text = <<>>
    /\ chunk_size = 0
    /\ overlap = 0
    /\ tokenizer = "ok"
    /\ ret = NoRet
    /\ store = <<>>
    /\ spc = "idle"
    /\ pending = 0
    /\ last = NoLast
    /\ before = <<>>
    /\ fresh = {}
    /\ PromptIdle
    /\ CallIdle
    /\ SolveIdle
    /\ LoadIdle
    /\ NameIdle
    /\ SubmitIdle
    /\ DownloadIdle

\* store_chunks(docs) is called; docs is any list of at most MaxDocs dicts,
\* and each turn of the loop learns which doc is next
StoreChunksBegin ==
    /\ spc = "idle"
    /\ \E n \in 0..MaxDocs : pending' = n
    /\ spc' = "storing"
    /\ last' = NoLast
    /\ before' = store
    /\ fresh' = {}
    /\ UNCHANGED store
    /\ UNCHANGED chunkVars
    /\ UNCHANGED promptVars
    /\ UNCHANGED callVars
    /\ UNCHANGED solveVars
    /\ UNCHANGED loadVars
    /\ UNCHANGED nameVars
    /\ UNCHANGED submitVars
    /\ UNCHANGED downloadVars

\* one turn of its loop; an exception ends the call
StoreChunksStep ==
    /\ spc = "storing"
    /\ pending > 0
    /\ \E doc \in Docs, out \in Outcomes :
           LET r == store_step(store, doc, out)
           IN /\ store' = r.store
              /\ last' = r.last
              /\ fresh' = fresh \cup {doc.id}
              /\ IF r.last.raised
                 THEN spc' = "idle" /\ pending' = 0
                 ELSE spc' = "storing" /\ pending' = pending - 1
    /\ UNCHANGED before
    /\ UNCHANGED chunkVars
    /\ UNCHANGED promptVars
    /\ UNCHANGED callVars
    /\ UNCHANGED solveVars
    /\ UNCHANGED loadVars
    /\ UNCHANGED nameVars
    /\ UNCHANGED submitVars
    /\ UNCHANGED downloadVars

\* the loop is over: print and return
StoreChunksEnd ==
    /\ spc = "storing"
    /\ pending = 0
    /\ spc' = "idle"
    /\ last' = [NoLast EXCEPT !.op = "stored", !.count = Len(store)]
    /\ UNCHANGED <<store, pending, before, fresh>>
    /\ UNCHANGED chunkVars
    /\ UNCHANGED promptVars
    /\ UNCHANGED callVars
    /\ UNCHANGED solveVars
    /\ UNCHANGED loadVars
    /\ UNCHANGED nameVars
    /\ UNCHANGED submitVars
    /\ UNCHANGED downloadVars

\* retrieve_chunks(query) is called, from this or another session
RetrieveChunks ==
    /\ \E out \in Outcomes : last' = retrieve_chunks(store, out)
    /\ UNCHANGED <<store, spc, pending>>
    /\ IF spc = "storing"
       THEN UNCHANGED <<before, fresh>>
       ELSE before' = <<>> /\ fresh' = {}
    /\ UNCHANGED chunkVars
    /\ UNCHANGED promptVars
    /\ UNCHANGED callVars
    /\ UNCHANGED solveVars
    /\ UNCHANGED loadVars
    /\ UNCHANGED nameVars
    /\ UNCHANGED submitVars
    /\ UNCHANGED downloadVars

\* the process ends and a new one starts: chromadb.Client() is an in-memory
\* client, so the new process's collection "studymate" is created empty
Restart ==
    /\ store' = <<>>
    /\ spc' = "idle"
    /\ pending' = 0
    /\ last' = [NoLast EXCEPT !.op = "restart", !.count = Len(store)]
    /\ before' = store
    /\ fresh' = {}
    /\ UNCHANGED chunkVars
    /\ UNCHANGED promptVars
    /\ UNCHANGED callVars
    /\ UNCHANGED solveVars
    /\ UNCHANGED loadVars
    /\ UNCHANGED nameVars
    /\ UNCHANGED submitVars
    /\ UNCHANGED downloadVars

NextStore ==
    \/ StoreChunksBegin
    \/ StoreChunksStep
    \/ StoreChunksEnd
    \/ RetrieveChunks
    \/ Restart

SpecStore == InitStore /\ [][NextStore]_vars

\* --------------------------------------------------------------- chunker
InitChunk ==
    /\ pc = "ready"
    /\ text \in Texts
    /\ chunk_size \in 0..MaxChunkSize
    /\ overlap \in 0..MaxOverlap
    /\ tokenizer \in {"ok", "raises", "unavailable"}
    /\ ret = NoRet
    /\ store = <<>>
    /\ spc = "idle"
    /\ pending = 0
    /\ last = NoLast
    /\ before = <<>>
    /\ fresh = {}
    /\ PromptIdle
    /\ CallIdle
    /\ SolveIdle
    /\ LoadIdle
    /\ NameIdle
    /\ SubmitIdle
    /\ DownloadIdle

ChunkTextCall ==
    /\ pc = "ready"
    /\ ret' = chunk_text(text, chunk_size, overlap, tokenizer)
    /\ pc' = "done"
    /\ UNCHANGED <<text, chunk_size, overlap, tokenizer>>
    /\ UNCHANGED storeVars
    /\ UNCHANGED promptVars
    /\ UNCHANGED callVars
    /\ UNCHANGED solveVars
    /\ UNCHANGED loadVars
    /\ UNCHANGED nameVars
    /\ UNCHANGED submitVars
    /\ UNCHANGED downloadVars

NextChunk == ChunkTextCall

SpecChunk == InitChunk /\ [][NextChunk]_vars

\* the call chunk_text(text, chunk_size=20, overlap=10) on three sentences of
\* ten words each
InitScenario ==
    /\ pc = "ready"
    /\ text = <<10, 0, 10, 0, 10>>
    /\ chunk_size = 20
    /\ overlap = 10
    /\ tokenizer = "ok"
    /\ ret = NoRet
    /\ StoreIdle
    /\ PromptIdle
    /\ CallIdle
    /\ SolveIdle
    /\ LoadIdle
    /\ NameIdle
    /\ SubmitIdle
    /\ DownloadIdle

SpecChunkScenario == (InitChunk \/ InitScenario) /\ [][NextChunk]_vars

\* ------------------------------------------------------- prompt assembler
InitPrompt ==
    /\ ChunkIdle
    /\ StoreIdle
    /\ ppc = "ready"
    /\ title \in Titles
    /\ description \in Descriptions
    /\ context_chunks \in ContextLists
    /\ prompt = <<>>
    /\ CallIdle
    /\ SolveIdle
    /\ LoadIdle
    /\ NameIdle
    /\ SubmitIdle
    /\ DownloadIdle

FormatPromptCall ==
    /\ ppc = "ready"
    /\ prompt' = format_assignment_prompt(title, description, context_chunks)
    /\ ppc' = "done"
    /\ UNCHANGED <<title, description, context_chunks>>
    /\ UNCHANGED chunkVars
    /\ UNCHANGED storeVars
    /\ UNCHANGED callVars
    /\ UNCHANGED solveVars
    /\ UNCHANGED loadVars
    /\ UNCHANGED nameVars
    /\ UNCHANGED submitVars
    /\ UNCHANGED downloadVars

NextPrompt == FormatPromptCall

SpecPrompt == InitPrompt /\ [][NextPrompt]_vars


\* ---------------------------------------------------- waiting for the model
InitCall ==
    /\ ChunkIdle
    /\ StoreIdle
    /\ PromptIdle
    /\ CallIdle
    /\ SolveIdle
    /\ LoadIdle
    /\ NameIdle
    /\ SubmitIdle
    /\ DownloadIdle

\* the function is called and starts the process, or fails to start it
CallStart(f, starts) ==
    /\ cpc # "waiting"
    /\ fn' = f
    /\ waited' = 0
    /\ pout' = NoExit
    /\ before' = store
    /\ IF starts
       THEN cpc' = "waiting" /\ proc' = "running" /\ cres' = "none"
       ELSE cpc' = OnCannotStart(f).pc /\ proc' = "none" /\ cres' = OnCannotStart(f).res
    /\ UNCHANGED <<store, spc, pending, last, fresh>>
    /\ UNCHANGED chunkVars
    /\ UNCHANGED promptVars
    /\ UNCHANGED solveVars
    /\ UNCHANGED loadVars
    /\ UNCHANGED nameVars
    /\ UNCHANGED submitVars
    /\ UNCHANGED downloadVars

\* the process stops making progress: it will neither write nor exit
ProcHangs ==
    /\ cpc = "waiting"
    /\ proc = "running"
    /\ proc' = "hung"
    /\ UNCHANGED <<cpc, fn, waited, cres, pout>>
    /\ UNCHANGED storeVars
    /\ UNCHANGED chunkVars
    /\ UNCHANGED promptVars
    /\ UNCHANGED solveVars
    /\ UNCHANGED loadVars
    /\ UNCHANGED nameVars
    /\ UNCHANGED submitVars
    /\ UNCHANGED downloadVars

\* the process exits and subprocess.run returns
ProcExits(rc, utf8) ==
    /\ cpc = "waiting"
    /\ proc = "running"
    /\ proc' = "exited"
    /\ pout' = [rc |-> rc, utf8 |-> utf8]
    /\ cpc' = OnExit(fn, rc, utf8).pc
    /\ cres' = OnExit(fn, rc, utf8).res
    /\ UNCHANGED <<fn, waited>>
    /\ UNCHANGED storeVars
    /\ UNCHANGED chunkVars
    /\ UNCHANGED promptVars
    /\ UNCHANGED solveVars
    /\ UNCHANGED loadVars
    /\ UNCHANGED nameVars
    /\ UNCHANGED submitVars
    /\ UNCHANGED downloadVars

\* a second passes while subprocess.run waits for the process
Tick ==
    /\ cpc = "waiting"
    /\ waited < MaxWait
    /\ TimeoutOf(fn) # 0 => waited < TimeoutOf(fn)
    /\ waited' = waited + 1
    /\ UNCHANGED <<cpc, fn, proc, cres, pout>>
    /\ UNCHANGED storeVars
    /\ UNCHANGED chunkVars
    /\ UNCHANGED promptVars
    /\ UNCHANGED solveVars
    /\ UNCHANGED loadVars
    /\ UNCHANGED nameVars
    /\ UNCHANGED submitVars
    /\ UNCHANGED downloadVars

\* subprocess.run's timeout expires: it kills the process and raises
\* TimeoutExpired, which call_ollama turns into APIError
TimeoutExpired ==
    /\ cpc = "waiting"
    /\ TimeoutOf(fn) # 0
    /\ waited = TimeoutOf(fn)
    /\ proc' = "killed"
    /\ cpc' = "raised"
    /\ cres' = "APIError"
    /\ UNCHANGED <<fn, waited, pout>>
    /\ UNCHANGED storeVars
    /\ UNCHANGED chunkVars
    /\ UNCHANGED promptVars
    /\ UNCHANGED solveVars
    /\ UNCHANGED loadVars
    /\ UNCHANGED nameVars
    /\ UNCHANGED submitVars
    /\ UNCHANGED downloadVars

NextCall ==
    \/ \E f \in CallFns, starts \in BOOLEAN : CallStart(f, starts)
    \/ ProcHangs
    \/ \E rc \in {0, 1}, utf8 \in BOOLEAN : ProcExits(rc, utf8)
    \/ Tick
    \/ TimeoutExpired

SpecCall == InitCall /\ [][NextCall]_vars

\* ---------------------------------------------------- assignment solver
InitSolve ==
    /\ ChunkIdle
    /\ store \in SolveStores
    /\ spc = "idle"
    /\ pending = 0
    /\ last = NoLast
    /\ before = <<>>
    /\ fresh = {}
    /\ PromptIdle
    /\ CallIdle
    /\ SolveIdle
    /\ LoadIdle
    /\ NameIdle
    /\ SubmitIdle
    /\ DownloadIdle

SolveAssignment(a, out, oll, write_ok) ==
    /\ apc' = "solved"
    /\ assignment' = a
    /\ sres' = solve_assignment(a, store, out, oll, write_ok)
    /\ seen' = seen \cup {[kind |-> sres'.kind, value |-> sres'.value,
                           context |-> sres'.context]}
    /\ UNCHANGED storeVars
    /\ UNCHANGED chunkVars
    /\ UNCHANGED promptVars
    /\ UNCHANGED callVars
    /\ UNCHANGED loadVars
    /\ UNCHANGED nameVars
    /\ UNCHANGED submitVars
    /\ UNCHANGED downloadVars

\* the store the process holds changes between two assignments
StoreChanges(st) ==
    /\ apc = "solved"
    /\ store' = st
    /\ apc' = "idle"
    /\ UNCHANGED <<assignment, sres, seen>>
    /\ UNCHANGED <<spc, pending, last, before, fresh>>
    /\ UNCHANGED chunkVars
    /\ UNCHANGED promptVars
    /\ UNCHANGED callVars
    /\ UNCHANGED loadVars
    /\ UNCHANGED nameVars
    /\ UNCHANGED submitVars
    /\ UNCHANGED downloadVars

NextSolve ==
    \/ \E a \in Assignments, out \in Outcomes, oll \in OllamaOutcomes,
          write_ok \in BOOLEAN : SolveAssignment(a, out, oll, write_ok)
    \/ \E st \in SolveStores : StoreChanges(st)

SpecSolve == InitSolve /\ [][NextSolve]_vars

\* ------------------------------------------------------------ corpus loader
InitLoad ==
    /\ ChunkIdle
    /\ StoreIdle
    /\ PromptIdle
    /\ CallIdle
    /\ SolveIdle
    /\ lpc = "ready"
    /\ loader \in Loaders
    /\ files \in Arrangements
    /\ loaded = [raised |-> FALSE, docs |-> <<>>]
    /\ NameIdle
    /\ SubmitIdle
    /\ DownloadIdle

LoadDocumentsCall ==
    /\ lpc = "ready"
    /\ loader = "load_documents"
    /\ loaded' = load_documents(files)
    /\ lpc' = "done"
    /\ UNCHANGED <<loader, files>>
    /\ UNCHANGED chunkVars
    /\ UNCHANGED storeVars
    /\ UNCHANGED promptVars
    /\ UNCHANGED callVars
    /\ UNCHANGED solveVars
    /\ UNCHANGED nameVars
    /\ UNCHANGED submitVars
    /\ UNCHANGED downloadVars

LoadAndChunkFilesCall ==
    /\ lpc = "ready"
    /\ loader = "load_and_chunk_files"
    /\ loaded' = load_and_chunk_files(files)
    /\ lpc' = "done"
    /\ UNCHANGED <<loader, files>>
    /\ UNCHANGED chunkVars
    /\ UNCHANGED storeVars
    /\ UNCHANGED promptVars
    /\ UNCHANGED callVars
    /\ UNCHANGED solveVars
    /\ UNCHANGED nameVars
    /\ UNCHANGED submitVars
    /\ UNCHANGED downloadVars

NextLoad == LoadDocumentsCall \/ LoadAndChunkFilesCall

SpecLoad == InitLoad /\ [][NextLoad]_vars

\* -------------------------------------------------------------- file names
InitName ==
    /\ ChunkIdle
    /\ StoreIdle
    /\ PromptIdle
    /\ CallIdle
    /\ SolveIdle
    /\ LoadIdle
    /\ npc = "ready"
    /\ filename \in FileNameInputs
    /\ safe = <<>>
    /\ SubmitIdle
    /\ DownloadIdle

SafeFilenameCall ==
    /\ npc = "ready"
    /\ safe' = safe_filename(filename)
    /\ npc' = "done"
    /\ UNCHANGED filename
    /\ UNCHANGED chunkVars
    /\ UNCHANGED storeVars
    /\ UNCHANGED promptVars
    /\ UNCHANGED callVars
    /\ UNCHANGED solveVars
    /\ UNCHANGED loadVars
    /\ UNCHANGED submitVars
    /\ UNCHANGED downloadVars

NextName == SafeFilenameCall

SpecName == InitName /\ [][NextName]_vars

\* ------------------------------------------------------------- submission
InitSubmit ==
    /\ ChunkIdle
    /\ StoreIdle
    /\ PromptIdle
    /\ CallIdle
    /\ SolveIdle
    /\ LoadIdle
    /\ NameIdle
    /\ bpc = "list"
    /\ sargs \in SubmitArgs
    /\ subs \in SubmissionLists
    /\ effects = <<>>
    /\ DownloadIdle

\* student_subs.list(...).execute() and the test for no submission
SubmitList(ok) ==
    /\ bpc = "list"
    /\ bpc' = IF ok /\ subs = <<>> THEN "returned" ELSE Then("upload", ok)
    /\ UNCHANGED <<sargs, subs, effects>>
    /\ UNCHANGED chunkVars
    /\ UNCHANGED storeVars
    /\ UNCHANGED promptVars
    /\ UNCHANGED callVars
    /\ UNCHANGED solveVars
    /\ UNCHANGED loadVars
    /\ UNCHANGED nameVars
    /\ UNCHANGED downloadVars

\* drive_file_id = upload_to_drive(creds, filepath)
SubmitUpload(ok) ==
    /\ bpc = "upload"
    /\ effects' = IF ok THEN Append(effects, [op |-> "upload", file |-> sargs.filepath,
                                               id |-> "none"])
                  ELSE effects
    /\ bpc' = Then("attach", ok)
    /\ UNCHANGED <<sargs, subs>>
    /\ UNCHANGED chunkVars
    /\ UNCHANGED storeVars
    /\ UNCHANGED promptVars
    /\ UNCHANGED callVars
    /\ UNCHANGED solveVars
    /\ UNCHANGED loadVars
    /\ UNCHANGED nameVars
    /\ UNCHANGED downloadVars

\* student_subs.modifyAttachments(..., id=submission_id, body=...).execute()
SubmitAttach(ok) ==
    /\ bpc = "attach"
    /\ effects' = IF ok THEN Append(effects, [op |-> "attach", file |-> sargs.filepath,
                                               id |-> subs[1]])
                  ELSE effects
    /\ bpc' = Then("turn_in", ok)
    /\ UNCHANGED <<sargs, subs>>
    /\ UNCHANGED chunkVars
    /\ UNCHANGED storeVars
    /\ UNCHANGED promptVars
    /\ UNCHANGED callVars
    /\ UNCHANGED solveVars
    /\ UNCHANGED loadVars
    /\ UNCHANGED nameVars
    /\ UNCHANGED downloadVars

\* student_subs.turnIn(..., id=submission_id).execute()
SubmitTurnIn(ok) ==
    /\ bpc = "turn_in"
    /\ effects' = IF ok THEN Append(effects, [op |-> "turn_in", file |-> "none",
                                               id |-> subs[1]])
                  ELSE effects
    /\ bpc' = Then("returned", ok)
    /\ UNCHANGED <<sargs, subs>>
    /\ UNCHANGED chunkVars
    /\ UNCHANGED storeVars
    /\ UNCHANGED promptVars
    /\ UNCHANGED callVars
    /\ UNCHANGED solveVars
    /\ UNCHANGED loadVars
    /\ UNCHANGED nameVars
    /\ UNCHANGED downloadVars

NextSubmit ==
    \/ \E ok \in BOOLEAN : SubmitList(ok)
    \/ \E ok \in BOOLEAN : SubmitUpload(ok)
    \/ \E ok \in BOOLEAN : SubmitAttach(ok)
    \/ \E ok \in BOOLEAN : SubmitTurnIn(ok)

SpecSubmit == InitSubmit /\ [][NextSubmit]_vars

\* --------------------------------------------------------------- downloads
InitDownload ==
    /\ ChunkIdle
    /\ StoreIdle
    /\ PromptIdle
    /\ CallIdle
    /\ SolveIdle
    /\ LoadIdle
    /\ NameIdle
    /\ SubmitIdle
    /\ dpc = "ready"
    /\ world \in DownloadWorlds
    /\ dres = NoDownload

DownloadFileCall ==
    /\ dpc = "ready"
    /\ dres' = download_file(world)
    /\ dpc' = "done"
    /\ UNCHANGED world
    /\ UNCHANGED chunkVars
    /\ UNCHANGED storeVars
    /\ UNCHANGED promptVars
    /\ UNCHANGED callVars
    /\ UNCHANGED solveVars
    /\ UNCHANGED loadVars
    /\ UNCHANGED nameVars
    /\ UNCHANGED submitVars

NextDownload == DownloadFileCall

SpecDownload == InitDownload /\ [][NextDownload]_vars

\* ------------------------------------------------ properties of chunk_text
Done == pc = "done"

\* the text has no character that is not whitespace
IsBlank(t) == \A i \in 1..Len(t) : t[i] = 0

\* the call went through the sentence loop
Chunked == Done /\ ~IsBlank(text) /\ tokenizer = "ok"

\* the words of the sentences at the positions ps
Words(ps) == SumSeq([j \in 1..Len(ps) |-> ret.sentences[ps[j]]])

\* the sentences of chunk k that were carried over from the chunk before it
SeedOf(k) == SubSeq(ret.parts[k].sents, 1, ret.parts[k].seed)

\* the sentences of chunk k that are new in it
FreshOf(k) == SubSeq(ret.parts[k].sents, ret.parts[k].seed + 1, Len(ret.parts[k].sents))

RECURSIVE FreshUpTo(_)
FreshUpTo(k) == IF k = 0 THEN <<>> ELSE FreshUpTo(k - 1) \o FreshOf(k)

HasOversized(k) ==
    \E j \in 1..Len(ret.parts[k].sents) : ret.sentences[ret.parts[k].sents[j]] > chunk_size

\* C1 (as claimed): every chunk has at most chunk_size words, unless it
\* contains a sentence that alone has more than chunk_size words.  Stated
\* here for the ordinary parameters only, 0 <= overlap < chunk_size.
C1_SizeBound ==
    (Chunked /\ overlap < chunk_size) =>
        \A k \in 1..Len(ret.chunks) :
            WordCount(ret.chunks[k]) <= chunk_size \/ HasOversized(k)

\* C2: in every chunk after the first, the sentences carried over from the
\* previous chunk have together at most overlap words.
C2_OverlapBound ==
    Chunked => \A k \in 2..Len(ret.parts) : Words(SeedOf(k)) <= overlap

C2_Witness ==
    /\ Chunked
    /\ \E k \in 2..Len(ret.parts) : ret.parts[k].seed >= 1
    /\ \E k \in 2..Len(ret.parts) :
           ret.parts[k].seed = 0 /\ Len(ret.parts[k - 1].sents) >= 1 /\ overlap >= 1

\* C3: the chunks without their carried-over sentences, concatenated in
\* order, are exactly the tokenizer's sentences: positions 1..n once each and
\* in order, and each chunk's string is the join of its sentences.
C3_Coverage ==
    Chunked =>
        /\ ret.sentences = sent_tokenize(text)
        /\ FreshUpTo(Len(ret.parts)) = [i \in 1..Len(ret.sentences) |-> i]
        /\ \A k \in 1..Len(ret.parts) : ret.parts[k].seed = 0 \/ k > 1
        /\ \A k \in 1..Len(ret.chunks) :
               sent_tokenize(ret.chunks[k]) =
                   [j \in 1..Len(ret.parts[k].sents) |-> ret.sentences[ret.parts[k].sents[j]]]

C3_Witness ==
    /\ Chunked
    /\ Len(ret.parts) >= 3
    /\ \E k \in 2..Len(ret.parts) : ret.parts[k].seed >= 1

\* C4 (as claimed): the chunk that contains a sentence of more than
\* chunk_size words contains no other sentence.  Stated here for the
\* ordinary parameters only, 0 <= overlap < chunk_size.
C4_OversizedAlone ==
    (Chunked /\ overlap < chunk_size) =>
        \A k \in 1..Len(ret.parts) :
            HasOversized(k) => Len(ret.parts[k].sents) = 1

\* C5: chunk_text returns the empty sequence, and raises nothing, exactly
\* when the text is empty or whitespace-only; any other text gives at least
\* one chunk.
C5_EmptyIffBlank ==
    Done => /\ ~ret.raised
            /\ (ret.chunks = <<>>) <=> IsBlank(text)

C5_Witness ==
    /\ Done
    /\ IsBlank(text) /\ Len(text) >= 2
    /\ tokenizer = "raises"
    /\ ret.chunks = <<>>

\* C6 (as claimed): if the tokenizer raises or is unavailable, chunk_text
\* raises nothing and returns the one-element sequence holding the text.
C6_FallbackAlways ==
    (Done /\ (ret.tok_raised \/ tokenizer = "unavailable")) =>
        ~ret.raised /\ ret.chunks = <<text>>

\* C6 (amended): for a text with a non-whitespace character, if the
\* tokenizer raises or is unavailable, chunk_text raises nothing and returns
\* the one-element sequence holding the whole text, unstripped.
C6_FallbackNonBlank ==
    (Done /\ ~IsBlank(text) /\ tokenizer # "ok") =>
        ~ret.raised /\ ret.tok_raised /\ ret.chunks = <<text>>

C6_Witness ==
    /\ Done
    /\ tokenizer = "unavailable"
    /\ ret.tok_raised
    /\ Len(text) >= 3 /\ text[1] = 0 /\ text[Len(text)] = 0
    /\ ret.chunks = <<text>>

\* ------------------------------------- properties of the store / retriever
Min(a, b) == IF a <= b THEN a ELSE b

Retrieved == last.op = "retrieve"

\* the entries of the store with the id i
EntriesOf(i) == {k \in 1..Len(store) : store[k].id = i}

\* C7 (as claimed): whenever the embedder fails or yields no usable vector,
\* retrieve_chunks returns the empty sequence and raises nothing.
C7_EmbedFailureGivesEmpty ==
    (Retrieved /\ last.out \in FailKinds) => (~last.raised /\ last.result = <<>>)

\* C8: against a store without entries, retrieve_chunks with a query whose
\* embedding succeeded returns the empty sequence and raises nothing.
C8_EmptyStoreSafe ==
    (Retrieved /\ last.count = 0 /\ last.out = "vector") =>
        (~last.raised /\ last.result = <<>>)

C8_Witness ==
    /\ Retrieved
    /\ store = <<>>
    /\ last.count = 0
    /\ last.out = "vector"
    /\ last.reached
    /\ last.n_results = N_RESULTS

\* C9 (as claimed): the k that retrieve_chunks asks the store for is
\* MAX_CONTEXT_CHUNKS clamped to 0..(number of entries), and it returns at
\* most k texts.
C9_KClamped ==
    (Retrieved /\ last.reached /\ last.out = "vector") =>
        /\ last.n_results >= 0
        /\ last.n_results <= last.count
        /\ last.n_results = Min(MAX_CONTEXT_CHUNKS, last.count)
        /\ Len(last.result) <= last.n_results

\* C10 (as claimed): store_chunks on a document whose id the store already
\* holds (its embedding being of the store's dimension) does not fail and
\* leaves exactly one entry with that id, holding the text, the metadata and
\* the embedding just supplied.
C10_Upsert ==
    (/\ last.op = "store" /\ last.existed /\ last.reached
     /\ last.emb.kind = "vector" /\ DimOk(store, last.emb.v)) =>
        /\ ~last.raised
        /\ Cardinality(EntriesOf(last.id)) = 1
        /\ \A k \in EntriesOf(last.id) :
               /\ store[k].document = last.text
               /\ store[k].file = FileOf(last.id)
               /\ store[k].embedding = last.emb.v

\* C11 (as claimed): a store_chunks call that meets an embedding of another
\* dimension than the store's fails and applies nothing: the store is as it
\* was when the call began.
C11_MismatchAllOrNothing ==
    (/\ last.op = "store" /\ last.reached
     /\ last.emb.kind = "vector" /\ ~DimOk(store, last.emb.v)) =>
        (last.raised /\ store = before)

\* C12 (as claimed): a refresh is atomic.  While docs are still to be stored
\* the store holds the previous contents, a refresh that failed left the
\* previous contents, and after a refresh that succeeded every entry is one
\* of the new corpus.
C12_AtomicRefresh ==
    /\ (spc = "storing" /\ pending > 0) => store = before
    /\ (last.op = "store" /\ last.raised) => store = before
    /\ (last.op = "stored") => \A k \in 1..Len(store) : store[k].id \in fresh

\* C13 (as claimed): the entries written in one process are in the store of
\* the process started afterwards.
C13_SurvivesRestart ==
    (last.op = "restart") => store = before

\* ------------------------------------------ properties of the prompt
Prompted == ppc = "done" /\ prompt # <<>>

\* the positions of the piece x in the prompt
Places(x) == {i \in 1..Len(prompt) : prompt[i] = x}

\* the number of characters of a sequence of pieces
RECURSIVE Chars(_)
Chars(ps) == IF ps = <<>> THEN 0 ELSE Head(ps).n + Chars(Tail(ps))

NoDescription == description = None \/ description = Str("", 0)

\* the part of the prompt between the description and the instructions
Between == SubSeq(prompt, 12, Len(prompt) - 4)

\* the chunk previews listed in the prompt, in order
Listed == [k \in 1..Cardinality(Places(DASH)) |->
              prompt[(CHOOSE i \in Places(DASH) :
                          Cardinality({j \in Places(DASH) : j <= i}) = k) + 1]]

\* C14: the prompt is one string whose parts come in the order persona,
\* title, description (the placeholder for an empty or missing one), the
\* context section if any, the instructions, and the cue "Answer:" last.
C14_PromptOrder ==
    Prompted =>
        /\ prompt[1] = PERSONA
        /\ prompt[4] = TITLE_LABEL /\ prompt[5] = title
        /\ prompt[8] = DESC_LABEL
        /\ prompt[9] = (IF NoDescription THEN PLACEHOLDER ELSE description)
        /\ Between = <<>> \/ (Between[2] = HEADING /\ Places(HEADING) = {13})
        /\ prompt[Len(prompt) - 3] = INSTRUCTIONS
        /\ prompt[Len(prompt)] = CUE

C14_Witness ==
    /\ Prompted
    /\ description = Str("", 0)
    /\ context_chunks # None /\ context_chunks.v # <<>>
    /\ prompt[9] = PLACEHOLDER
    /\ Between # <<>>

\* C15: the prompt has the context heading, and one list line per chunk, if
\* and only if context_chunks is a non-empty sequence.
C15_ContextIffChunks ==
    Prompted =>
        /\ (Places(HEADING) # {}) <=> (context_chunks # None /\ context_chunks.v # <<>>)
        /\ Cardinality(Places(DASH)) =
               (IF context_chunks = None THEN 0 ELSE Len(context_chunks.v))

C15_Witness ==
    /\ Prompted
    /\ context_chunks = List(<<>>)
    /\ Places(HEADING) = {}

\* C16: every context chunk is listed once, in the given order, by its first
\* 200 characters (whole when shorter), and the context section has at most
\* 30 + 206 characters per chunk.
C16_PreviewBound ==
    (Prompted /\ context_chunks # None) =>
        /\ Len(Listed) = Len(context_chunks.v)
        /\ \A k \in 1..Len(Listed) :
               /\ Listed[k].s = context_chunks.v[k].s
               /\ Listed[k].n = (IF context_chunks.v[k].n <= 200
                                 THEN context_chunks.v[k].n ELSE 200)
        /\ Chars(Between) <= 30 + 206 * Len(context_chunks.v)

C16_Witness ==
    /\ Prompted
    /\ context_chunks # None
    /\ Len(context_chunks.v) = 2
    /\ context_chunks.v[1].n = 500 /\ context_chunks.v[2].n = 1
    /\ Listed[1].n = 200 /\ Listed[2].n = 1

\* ------------------------------------------ properties of the model calls
\* C17: every call of the model has a bounded wait (call_ollama, the
\* pipeline's embed_text and ask_studymate): no caller is still waiting after
\* the timeout, and a call that failed has left the store as it was.
C17_BoundedWait ==
    /\ cpc = "waiting" => waited <= TIMEOUT
    /\ cpc = "raised" => store = before

\* ------------------------------------------ properties of solve_assignment
\* C18: what solve_assignment hands its caller tells whether the answer was
\* generated with retrieved context or with none: two runs with the same
\* kind of outcome agree on it, and an answer is never an error.
C18_ContextTold ==
    \A x, y \in seen :
        (x.kind = y.kind /\ x.value = y.value) => x.context = y.context

\* ------------------------------------------ properties of the corpus load
Loaded == lpc = "done"

\* the files the pipeline's loader reads and that have a sentence
Parsable(f) ==
    /\ f.name \in {"a.pdf", "b.docx"}
    /\ f.readable
    /\ \E k \in 1..Len(f.text) : f.text[k] > 0

\* C19: load_and_chunk_files is not aborted by a PDF or DOCX file it cannot
\* read: it returns, and what it returns has the chunks of every other file.
C19_SkipsUnreadable ==
    (Loaded /\ loader = "load_and_chunk_files") =>
        /\ ~loaded.raised
        /\ \A i \in 1..Len(files) :
               Parsable(files[i]) =>
                   \E k \in 1..Len(loaded.docs) :
                       loaded.docs[k].file_path = <<files[i].dir, files[i].name>>

\* C20: in the list one corpus load returns no two chunks have the same id,
\* and no two chunks of the same source_file have the same index.
C20_UniqueIds ==
    (Loaded /\ ~loaded.raised) =>
        \A i, j \in 1..Len(loaded.docs) :
            i # j =>
                /\ loaded.docs[i].id # loaded.docs[j].id
                /\ loaded.docs[i].source_file = loaded.docs[j].source_file =>
                       loaded.docs[i].chunk_index # loaded.docs[j].chunk_index

\* ------------------------------------------ properties of the embedder
\* C21: whatever the model prints, embed_text gives a vector or None: output
\* that is not a well-formed vector never reaches the collection as an
\* embedding.
C21_VectorOrNone ==
    (last.op \in {"store", "retrieve"} /\ last.out # "vector") =>
        (~last.reached /\ last.emb = None)

\* ------------------------------------------ properties of safe_filename
RECURSIVE NameLen(_)
\* the number of characters of a name
NameLen(rs) == IF rs = <<>> THEN 0 ELSE Head(rs).n + NameLen(Tail(rs))

RECURSIVE CharAt(_, _)
\* the character at position i of a name, 1 <= i <= NameLen(rs)
CharAt(rs, i) == IF i <= Head(rs).n THEN Head(rs).ch ELSE CharAt(Tail(rs), i - Head(rs).n)

Forbidden == {"<", ">", ":", "\"", "/", "\\", "|", "?", "*"}

\* C22: safe_filename returns at most 255 characters, none of them one of
\* < > : " / \ | ? *, the input's first 255 characters each kept at its
\* position, with '_' in the place of every forbidden one.
C22_SafeFilename ==
    npc = "done" =>
        /\ NameLen(safe) <= 255
        /\ NameLen(safe) = (IF NameLen(filename) <= 255 THEN NameLen(filename) ELSE 255)
        /\ \A i \in 1..NameLen(safe) :
               /\ CharAt(safe, i) \notin Forbidden
               /\ CharAt(safe, i) = (IF CharAt(filename, i) \in Forbidden
                                     THEN "_" ELSE CharAt(filename, i))

C22_Witness ==
    /\ npc = "done"
    /\ NameLen(filename) = 256
    /\ CharAt(filename, 1) = "a" /\ CharAt(filename, 2) = "/"
    /\ NameLen(safe) = 255
    /\ CharAt(safe, 2) = "_"

\* ------------------------------------- properties of the ingestion chunker
\* the files load_and_chunk_files has read and chunked
Ingested ==
    IF Loaded /\ loader = "load_and_chunk_files" /\ ~loaded.raised
    THEN {i \in 1..Len(files) : files[i].name \in {"a.pdf", "b.docx"}}
    ELSE {}

\* C23: the chunker inside load_and_chunk_files carries over into each chunk
\* after the first sentences of at most 50 words together.
C23_IngestionOverlapBound ==
    \A i \in Ingested :
        LET carried == PipelineCarried(sent_tokenize(files[i].text), 1, <<>>, 0, <<>>)
        IN \A k \in 1..Len(carried) : carried[k] <= 50

\* C26: no document load_and_chunk_files returns has an empty text: each
\* contains at least one sentence of its file.
C26_NoEmptyChunk ==
    (Loaded /\ loader = "load_and_chunk_files" /\ ~loaded.raised) =>
        \A k \in 1..Len(loaded.docs) :
            \E j \in 1..Len(loaded.docs[k].text) : loaded.docs[k].text[j] > 0

\* ------------------------------------- properties of chunk_text's overlap
\* the last n sentences of chunk k
SuffixOf(k, n) == SubSeq(ret.parts[k].sents, Len(ret.parts[k].sents) - n + 1,
                         Len(ret.parts[k].sents))

Scenario == text = <<10, 0, 10, 0, 10>> /\ chunk_size = 20 /\ overlap = 10

\* C24: a chunk after the first starts with the longest suffix of the chunk
\* closed before it that has at most overlap words, followed by the sentence
\* that overflowed; sentences of 10, 10, 10 words with chunk_size 20 and
\* overlap 10 give the chunks [s1 s2] and [s2 s3].
C24_LongestSuffix ==
    Chunked =>
        /\ \A k \in 2..Len(ret.parts) :
               LET n == ret.parts[k].seed
                   prev == ret.parts[k - 1].sents
               IN /\ n <= Len(prev)
                  /\ SeedOf(k) = SuffixOf(k - 1, n)
                  /\ Words(SuffixOf(k - 1, n)) <= overlap
                  /\ n < Len(prev) => Words(SuffixOf(k - 1, n + 1)) > overlap
                  /\ Len(ret.parts[k].sents) > n
                  /\ ret.parts[k].sents[n + 1] = prev[Len(prev)] + 1
        /\ Scenario =>
               /\ Len(ret.parts) = 2
               /\ ret.parts[1].sents = <<1, 2>> /\ ret.parts[2].sents = <<2, 3>>
               /\ ret.chunks = << <<10, 0, 10>>, <<10, 0, 10>> >>

C24_Witness ==
    /\ Chunked
    /\ Scenario
    /\ Len(ret.parts) = 2
    /\ ret.parts[2].seed = 1

\* the sentences (positions) of the chunks before chunk k
Earlier(k) ==
    UNION {{ret.parts[j].sents[m] : m \in 1..Len(ret.parts[j].sents)} : j \in 1..(k - 1)}

\* C25: chunk_text makes progress whatever chunk_size >= 0 and overlap >= 0
\* are: every chunk has at least one sentence that no earlier chunk has, so
\* there are at most as many chunks as sentences.
C25_Progress ==
    Chunked =>
        /\ \A k \in 1..Len(ret.parts) :
               \E m \in 1..Len(ret.parts[k].sents) : ret.parts[k].sents[m] \notin Earlier(k)
        /\ Len(ret.chunks) <= Len(ret.sentences)

C25_Witness ==
    /\ Chunked
    /\ overlap >= chunk_size
    /\ Len(ret.parts) >= 3
    /\ \E k \in 2..Len(ret.parts) : ret.parts[k].seed >= 1

\* ------------------------------------------ properties of call_ollama
CallOllamaEnded == fn = "call_ollama" /\ cpc \in {"returned", "raised"}

\* C27 (as claimed): call_ollama returns the stripped standard output when
\* the process exits with code 0, and otherwise raises APIError and nothing
\* else.
C27_ReturnsOnExitZero ==
    CallOllamaEnded =>
        /\ (proc = "exited" /\ pout.rc = 0) => cpc = "returned"
        /\ cpc = "raised" => cres = "APIError"

\* C27 (amended): call_ollama returns the stripped standard output exactly
\* when the process exits with code 0 and its output is valid UTF-8; in every
\* other case (non-zero code, undecodable output, timeout, failure to start)
\* it raises APIError and nothing else.
C27_TwoOutcomes ==
    CallOllamaEnded =>
        /\ cpc = "returned" <=> (proc = "exited" /\ pout.rc = 0 /\ pout.utf8)
        /\ cpc = "returned" => cres = "stdout"
        /\ cpc = "raised" => cres = "APIError"

C27_Witness ==
    /\ CallOllamaEnded
    /\ proc = "exited" /\ pout.rc = 0 /\ ~pout.utf8
    /\ cpc = "raised" /\ cres = "APIError"

\* ------------------------------- properties of solve_assignment's errors
\* C28: solve_assignment returns the path of an answer file it has written
\* or raises StudyMateAIError, whatever keys the assignment has and whichever
\* of retrieval, generation and file writing fails.
C28_OnlyStudyMateAIError ==
    apc = "solved" =>
        \/ sres.kind = "returned" /\ sres.value = "filepath" /\ sres.written
        \/ sres.kind = "raised" /\ sres.value = "StudyMateAIError"

\* ------------------------------------------ properties of submit_assignment
\* the operations done outside the program so far, in order
OpsDone == [k \in 1..Len(effects) |-> effects[k].op]

\* C29: submit_assignment uploads, then attaches, then turns in, each step
\* only after the one before it succeeded; the attachment and the turn-in are
\* on the student's first submission; with no submission nothing is done.
C29_SubmitOrder ==
    /\ OpsDone = SubSeq(<<"upload", "attach", "turn_in">>, 1, Len(effects))
    /\ subs = <<>> => effects = <<>>
    /\ \A k \in 1..Len(effects) :
           /\ effects[k].op \in {"upload", "attach"} => effects[k].file = sargs.filepath
           /\ effects[k].op \in {"attach", "turn_in"} => effects[k].id = subs[1]
    /\ (bpc = "returned" /\ subs # <<>>) => Len(effects) = 3

C29_Witness ==
    /\ bpc = "returned"
    /\ Len(subs) = 2
    /\ Len(effects) = 3
    /\ effects[3].op = "turn_in"

\* ------------------------------------------ properties of download_file
\* the place of method m among the methods tried, 0 when it was not tried
PlaceOf(m) ==
    IF \E k \in 1..Len(dres.tried) : dres.tried[k] = m
    THEN CHOOSE k \in 1..Len(dres.tried) : dres.tried[k] = m
    ELSE 0

\* C30: download_file tries direct download, then webContentLink or export
\* link, then the placeholder, a later one only after the earlier ones
\* failed; it writes the placeholder exactly when every download failed, so
\* when it returns the material has its file or its placeholder; it raises
\* nothing.  Stated here for the calls in which the download directory could
\* be made.
C30_FileOrPlaceholder ==
    (dpc = "done" /\ world.mkdir_ok) =>
        /\ ~dres.raised
        /\ PlaceOf("webContentLink") # 0 => PlaceOf("direct") = 1 /\ ~world.direct_ok
        /\ PlaceOf("export") # 0 => PlaceOf("direct") = 1 /\ ~world.direct_ok
        /\ PlaceOf("placeholder") # 0 => PlaceOf("direct") = 1 /\ ~dres.file
        /\ dres.placeholder => ~dres.file
        /\ dres.file \/ dres.placeholder

====
